---- MODULE Spec2Model ----
(***************************************************************************)
(* Model of fastmcp_mysql.tools.query: the QueryValidator (classification  *)
(* and validation of a query text), QueryExecutor.execute (validation,     *)
(* call of the connection manager, shaping of the result envelope) and the *)
(* tool function mysql_query around them; and of the rate limiter that     *)
(* security/interfaces/rate_limiter.py and the security tests declare,     *)
(* with the behaviour the design document gives it.                        *)
(*                                                                         *)
(* Four specifications share the variables: Spec (calls of execute on one  *)
(* executor), SpecValidator (calls of validate_query), SpecTool (calls of  *)
(* mysql_query) and SpecLimiter (calls of the rate limiter).               *)
(*                                                                         *)
(* A query text is a sequence of atoms.  An atom is a piece of text that   *)
(* the regular expressions of the validator treat as a unit: a whitespace  *)
(* character, a semicolon, a keyword (in some letter case), or a run of    *)
(* other non-whitespace characters.  The text is the concatenation of its  *)
(* atoms, so <<"DROP", " ", "t", ";">> is the text "DROP t;".               *)
(***************************************************************************)
EXTENDS Integers, Sequences, FiniteSets, TLC

\* ------------------------------------------------------------------ bounds
MaxTail == 3        \* atoms after the head of the query

\* ------------------------------------------------------------------ atoms
\* Python's None
None == [kind |-> "None"]

\* a Python string, where None is possible too
Str(s) == [kind |-> "str", s |-> s]

\* a raised ValueError(message)
ValueError(message) == [kind |-> "ValueError", message |-> message]

Space == " "
Newline == "\n"
Semicolon == ";"

\* \s of the regular expressions
WhitespaceAtoms == {Space, Newline}

IsSpace(a) == a \in WhitespaceAtoms

\* "." of the regular expressions (no DOTALL flag): anything but a newline
IsDot(a) == a # Newline

\* re.IGNORECASE: letters are compared after case folding
Upper(a) ==
    CASE a = "select" -> "SELECT"
      [] a = "drop"   -> "DROP"
      [] a = "with"   -> "WITH"
      [] OTHER        -> a

DDLKeywords == {"CREATE", "DROP", "ALTER", "TRUNCATE", "RENAME"}

\* QueryType
SELECT == "SELECT"
INSERT == "INSERT"
UPDATE == "UPDATE"
DELETE == "DELETE"
DDL == "DDL"
OTHER_TYPE == "OTHER"
QueryType == {SELECT, INSERT, UPDATE, DELETE, DDL, OTHER_TYPE}

\* ------------------------------------------------------- sequence helpers
\* the atoms lo..hi of q are whitespace: a match of \s* (of \s+)
AllSpaces(q, lo, hi) == \A k \in lo..hi : IsSpace(q[k])

\* the atoms lo..hi of q hold no newline: a match of .*?
AllDots(q, lo, hi) == \A k \in lo..hi : IsDot(q[k])

\* index of the first atom that ^\s* leaves unread (Len(q)+1 if none)
RECURSIVE SkipSpaces(_, _)
SkipSpaces(q, i) ==
    IF i <= Len(q) /\ IsSpace(q[i]) THEN SkipSpaces(q, i + 1) ELSE i

\* index of the last atom at or before j that is not whitespace (0 if none)
RECURSIVE SkipSpacesBack(_, _)
SkipSpacesBack(q, j) ==
    IF j >= 1 /\ IsSpace(q[j]) THEN SkipSpacesBack(q, j - 1) ELSE j

\* str.strip(): the text without its leading and its trailing whitespace
Strip(q) == SubSeq(q, SkipSpaces(q, 1), SkipSpacesBack(q, Len(q)))

\* ^\s*(K1|K2|...)\s+  with re.IGNORECASE, matched at the start of q
MatchKeyword(q, keywords) ==
    LET i == SkipSpaces(q, 1)
    IN  /\ i + 1 <= Len(q)
        /\ Upper(q[i]) \in keywords
        /\ IsSpace(q[i + 1])

\* ^\s*(WITH\s+.*?\s+)?SELECT\s+  with re.IGNORECASE
MatchSelect(q) ==
    \/ MatchKeyword(q, {"SELECT"})
    \/ LET i == SkipSpaces(q, 1)
       IN  /\ i <= Len(q)
           /\ Upper(q[i]) = "WITH"
           /\ \E p \in (i + 1)..Len(q) :
              \E r \in p..Len(q) :
              \E s \in (r + 1)..Len(q) :
                 /\ AllSpaces(q, i + 1, p)            \* \s+
                 /\ AllDots(q, p + 1, r)              \* .*?
                 /\ AllSpaces(q, r + 1, s)            \* \s+
                 /\ s + 2 <= Len(q)
                 /\ Upper(q[s + 1]) = "SELECT"
                 /\ IsSpace(q[s + 2])                  \* \s+

\* QueryValidator.get_query_type: the patterns are tried in the order of
\* the dictionary, the first that matches the stripped text decides
get_query_type(query) ==
    LET q == Strip(query)
    IN  IF MatchSelect(q) THEN SELECT
        ELSE IF MatchKeyword(q, {"INSERT"}) THEN INSERT
        ELSE IF MatchKeyword(q, {"UPDATE"}) THEN UPDATE
        ELSE IF MatchKeyword(q, {"DELETE"}) THEN DELETE
        ELSE IF MatchKeyword(q, DDLKeywords) THEN DDL
        ELSE OTHER_TYPE

\* multi_statement_pattern.search(query):  ;\s*\S  anywhere in the text
HasMultipleStatements(query) ==
    \E i \in 1..Len(query) :
        /\ query[i] = Semicolon
        /\ \E j \in (i + 1)..Len(query) :
              /\ AllSpaces(query, i + 1, j - 1)
              /\ ~IsSpace(query[j])

\* ------------------------------------------------------- error messages
MsgMultiple == "Multiple statements detected in query"
MsgDDL == "DDL operations are not allowed"
MsgNeedWrite(t) ==
    CASE t = INSERT -> "INSERT operations require write permission"
      [] t = UPDATE -> "UPDATE operations require write permission"
      [] OTHER      -> "DELETE operations require write permission"
MsgInsert == "INSERT operations are not allowed"
MsgUpdate == "UPDATE operations are not allowed"
MsgDelete == "DELETE operations are not allowed"

\* validate_query with the DDL check in front of the multiple-statements
\* check
validate_query_ddl_first(v, query, allow_write) ==
    LET query_type == get_query_type(query)
    IN  IF query_type = DDL THEN ValueError(MsgDDL)
        ELSE IF HasMultipleStatements(query) THEN ValueError(MsgMultiple)
        ELSE IF query_type \in {SELECT, OTHER_TYPE} THEN None
        ELSE IF ~allow_write THEN ValueError(MsgNeedWrite(query_type))
        ELSE IF query_type = INSERT /\ ~v.allow_insert
             THEN ValueError(MsgInsert)
        ELSE IF query_type = UPDATE /\ ~v.allow_update
             THEN ValueError(MsgUpdate)
        ELSE IF query_type = DELETE /\ ~v.allow_delete
             THEN ValueError(MsgDelete)
        ELSE None

\* validate_query with the UPDATE branch reading allow_insert
validate_query_update_reads_insert(v, query, allow_write) ==
    IF HasMultipleStatements(query) THEN ValueError(MsgMultiple)
    ELSE LET query_type == get_query_type(query)
         IN  IF query_type = DDL THEN ValueError(MsgDDL)
             ELSE IF query_type \in {SELECT, OTHER_TYPE} THEN None
             ELSE IF ~allow_write THEN ValueError(MsgNeedWrite(query_type))
             ELSE IF query_type = INSERT /\ ~v.allow_insert
                  THEN ValueError(MsgInsert)
             ELSE IF query_type = UPDATE /\ ~v.allow_insert
                  THEN ValueError(MsgUpdate)
             ELSE IF query_type = DELETE /\ ~v.allow_delete
                  THEN ValueError(MsgDelete)
             ELSE None

\* validate_query with the test of allow_write in front of the return for
\* SELECT and OTHER
validate_query_write_check_first(v, query, allow_write) ==
    IF HasMultipleStatements(query) THEN ValueError(MsgMultiple)
    ELSE LET query_type == get_query_type(query)
         IN  IF query_type = DDL THEN ValueError(MsgDDL)
             ELSE IF ~allow_write THEN ValueError(MsgNeedWrite(query_type))
             ELSE IF query_type \in {SELECT, OTHER_TYPE} THEN None
             ELSE IF query_type = INSERT /\ ~v.allow_insert
                  THEN ValueError(MsgInsert)
             ELSE IF query_type = UPDATE /\ ~v.allow_update
                  THEN ValueError(MsgUpdate)
             ELSE IF query_type = DELETE /\ ~v.allow_delete
                  THEN ValueError(MsgDelete)
             ELSE None

\* validate_query that looks at allow_write only when the flag of the
\* category is off
validate_query_flag_overrides(v, query, allow_write) ==
    IF HasMultipleStatements(query) THEN ValueError(MsgMultiple)
    ELSE LET query_type == get_query_type(query)
         IN  IF query_type = DDL THEN ValueError(MsgDDL)
             ELSE IF query_type \in {SELECT, OTHER_TYPE} THEN None
             ELSE IF query_type = INSERT /\ v.allow_insert THEN None
             ELSE IF query_type = UPDATE /\ v.allow_update THEN None
             ELSE IF query_type = DELETE /\ v.allow_delete THEN None
             ELSE IF ~allow_write THEN ValueError(MsgNeedWrite(query_type))
             ELSE IF query_type = INSERT THEN ValueError(MsgInsert)
             ELSE IF query_type = UPDATE THEN ValueError(MsgUpdate)
             ELSE ValueError(MsgDelete)

\* QueryValidator.validate_query: None when the query passes, otherwise
\* the ValueError it raises
validate_query(v, query, allow_write) ==
    IF HasMultipleStatements(query) THEN ValueError(MsgMultiple)
    ELSE LET query_type == get_query_type(query)
         IN  IF query_type = DDL THEN ValueError(MsgDDL)
             ELSE IF query_type \in {SELECT, OTHER_TYPE} THEN None
             ELSE IF ~allow_write THEN ValueError(MsgNeedWrite(query_type))
             ELSE IF query_type = INSERT /\ ~v.allow_insert
                  THEN ValueError(MsgInsert)
             ELSE IF query_type = UPDATE /\ ~v.allow_update
                  THEN ValueError(MsgUpdate)
             ELSE IF query_type = DELETE /\ ~v.allow_delete
                  THEN ValueError(MsgDelete)
             ELSE None

\* ------------------------------------------------------------ the inputs
\* heads of the query texts: one keyword, in some letter case, or the
\* beginning of a longer statement
KeywordAtoms ==
    {"SELECT", "select", "INSERT", "UPDATE", "DELETE",
     "CREATE", "DROP", "drop", "ALTER", "TRUNCATE", "RENAME", "SHOW"}

Heads ==
    {<<k>> : k \in KeywordAtoms} \cup
    { <<"DROP", "/**/", "TABLE">>,
      <<"WITH", Space, "c AS (x)", Space, "SELECT">>,
      <<"with", Space, "c AS (x)", Space, "DELETE">>,
      <<"WITH", Newline, "c", Newline, "AS (x)", Newline, "SELECT">>,
      <<"WITH", Space, "c AS (", Space, "SELECT", Space, "1 )", Space, "DELETE">> }

TailAtoms == {Space, Semicolon, "t"}

RECURSIVE SeqsUpTo(_, _)
SeqsUpTo(S, n) ==
    IF n = 0 THEN {<<>>}
    ELSE LET shorter == SeqsUpTo(S, n - 1)
         IN  shorter \cup {Append(s, a) : s \in shorter, a \in S}

Leads == {<<>>, <<Space>>}
Tails == SeqsUpTo(TailAtoms, MaxTail)

Queries == {l \o h \o t : l \in Leads, h \in Heads, t \in Tails}

\* the params argument: None, a list or a tuple
List(items) == [kind |-> "list", items |-> items]
Tuple(items) == [kind |-> "tuple", items |-> items]
ParamValues == {None, List(<<"a", "b">>)}

Databases == {None, Str("db1")}

\* truth value of a string or None, as in "if database:"
Truthy(d) == d # None /\ d.s # ""

\* what connection_manager.execute gives back: rows or a row count
Rows(rows) == [kind |-> "rows", rows |-> rows]
Count(n) == [kind |-> "count", n |-> n]
RowSets == {Rows(<<>>), Rows(<<"row1">>)}
Counts == {Count("n")}
ReturnValues == RowSets \cup Counts

\* texts of the exceptions the driver raises
DriverErrors ==
    { "(1045, Access denied for user 'root'@'10.0.0.5' (using password: YES))",
      "(2003, Can't connect to MySQL server on 'db.internal')" }

\* the environment variables mysql_query reads, and values they may hold
\* (None: the variable is not set)
EnvNames == {"MYSQL_ALLOW_INSERT", "MYSQL_ALLOW_UPDATE", "MYSQL_ALLOW_DELETE"}
EnvValues == {None, Str("true"), Str("TRUE")}

\* str.lower()
Lower(s) == IF s = "TRUE" THEN "true" ELSE s

\* os.getenv(name, default) in the environment env
getenv(env, name, default) ==
    IF env[name] = None THEN default ELSE env[name].s

\* the connection manager that set_connection_manager installs
Manager == [kind |-> "ConnectionManager"]

\* the queries of the calls of mysql_query
ToolQueries ==
    { <<"SELECT", Space, "t">>,
      <<"SHOW", Space, "t">>,
      <<"INSERT", Space, "t">>,
      <<"UPDATE", Space, "t">>,
      <<"DELETE", Space, "t", Semicolon>>,
      <<"DROP", Space, "t">>,
      <<"SELECT", Space, "t", Semicolon, Space, "DROP", Space, "t">> }

\* ---------------------------------------------------- the rate limiter
\* the clients of the rate limiter
Clients == {"client1", "client2"}

\* the configuration of the RateLimiter
max_requests_per_minute == 2
max_requests_per_hour == 3
max_concurrent_queries == 2
cooldown_seconds == 30

\* the horizons of the two sliding windows, in seconds
MinuteSeconds == 60
HourSeconds == 3600

\* the clock moves in steps of TickSeconds, MaxTicks times
TickSeconds == 30
MaxTicks == 2

\* a point in time; a number of seconds (where None is possible too)
At(t) == [kind |-> "datetime", t |-> t]
Seconds(n) == [kind |-> "int", n |-> n]

\* ------------------------------------------------------------ the server
\* the tasks that call the registered tool mysql_query concurrently
Tasks == {"task1", "task2"}

\* setup_connection is called at most MaxSetups times in all
MaxSetups == 3

\* ------------------------------------------- the RateLimiter interface
\* the callers that use check_limit and record_request concurrently
Callers == {"caller1", "caller2"}

\* ------------------------------------------------------------- the state
VARIABLES
    validator,   \* QueryValidator: allow_insert, allow_update, allow_delete
                 \* (None before mysql_query has built one)
    pc,          \* "idle", "awaiting" (in connection_manager.execute),
                 \* "returned" (execute returned), "raised" (it raised)
    query,       \* execute's local query
    verr,        \* what validate_query raised in this call, or None
    exec_call,   \* arguments of connection_manager.execute, or None
    outcome,     \* what connection_manager.execute did, or None
    query_type,  \* execute's local query_type, or None
    result,      \* the dictionary execute returned, or None
    log,         \* logger.error records of this call
    connection_manager,  \* the global _connection_manager, or None
    environ,     \* os.environ: MYSQL_ALLOW_INSERT, _UPDATE, _DELETE
    request,     \* arguments of the mysql_query call in progress, or None
    response,    \* the dictionary mysql_query returned, or None
    validation,  \* a direct call of validate_query and its outcome, or None
    now,                 \* the clock of the rate limiter, in seconds
    minute_requests,     \* RateLimiter: request times per client, last minute
    hour_requests,       \* RateLimiter: request times per client, last hour
    concurrent_queries,  \* RateLimiter: slots in use per client
    cooldown_until,      \* RateLimiter: end of the cooldown per client, or None
    last_call,   \* the last call of the rate limiter and what it returned
    admitted,    \* per client, the times of the checks that were allowed
    held,        \* per client, the slots its callers hold
    connection_initialized,  \* create_server: _connection_initialized
    task,        \* per task, the call of the registered tool it is in
    setup_calls,     \* calls of setup_connection started so far
    setup_failures,  \* calls of setup_connection that raised so far
    manager_sets,    \* calls of set_connection_manager so far
    caller,      \* per caller of the RateLimiter interface, where it is
    filter,      \* QueryFilter: the six rule collections
    filter_call  \* the last call of is_allowed and what it returned

\* the state of one QueryExecutor and of the call of execute in progress
execVars == <<validator, pc, query, verr, exec_call, outcome, query_type,
              result, log>>

\* the state of the module around mysql_query
toolVars == <<connection_manager, environ, request, response>>

\* the state of one RateLimiter, its clock and what its callers saw
limiterVars == <<now, minute_requests, hour_requests, concurrent_queries,
                 cooldown_until, last_call, admitted, held>>

\* the state of the server: the flag of ensure_connection, the tool calls
\* in progress and what they did to the connection
serverVars == <<connection_initialized, task, setup_calls, setup_failures,
                manager_sets>>

\* the state of the security components around the rate limiter: the
\* callers of the interface, the query filter and its last evaluation
securityVars == <<caller, filter, filter_call>>

vars == <<execVars, toolVars, validation, limiterVars, serverVars,
          securityVars>>

Validators ==
    [allow_insert : BOOLEAN, allow_update : BOOLEAN, allow_delete : BOOLEAN]

\* QueryFilter(): every rule collection is empty
NoRules ==
    [whitelist_patterns |-> <<>>, blacklist_patterns |-> <<>>,
     whitelist_tables |-> {}, blacklist_tables |-> {},
     whitelist_operations |-> {}, blacklist_operations |-> {}]

\* create_server has returned: _connection_initialized = False, no tool
\* call has been made
InitServer ==
    /\ connection_initialized = FALSE
    /\ task = [t \in Tasks |-> [pc |-> "idle"]]
    /\ setup_calls = 0
    /\ setup_failures = 0
    /\ manager_sets = 0

\* no caller is inside the rate limiter; a filter without rules that has
\* not been asked
InitSecurity ==
    /\ caller = [p \in Callers |-> [pc |-> "idle"]]
    /\ filter = NoRules
    /\ filter_call = None

\* RateLimiter.__init__: the tracking dictionaries are empty, which reads
\* as no request, no slot and no cooldown for every client
InitLimiter ==
    /\ now = 0
    /\ minute_requests = [c \in Clients |-> <<>>]
    /\ hour_requests = [c \in Clients |-> <<>>]
    /\ concurrent_queries = [c \in Clients |-> 0]
    /\ cooldown_until = [c \in Clients |-> None]
    /\ last_call = None
    /\ admitted = [c \in Clients |-> <<>>]
    /\ held = [c \in Clients |-> 0]

\* QueryExecutor.__init__ with a QueryValidator; no call in progress
Init ==
    /\ validator \in Validators
    /\ pc = "idle"
    /\ query = <<>>
    /\ verr = None
    /\ exec_call = None
    /\ outcome = None
    /\ query_type = None
    /\ result = None
    /\ log = <<>>
    /\ connection_manager = None
    /\ environ = [n \in EnvNames |-> None]
    /\ request = None
    /\ response = None
    /\ validation = None
    /\ InitLimiter
    /\ InitServer
    /\ InitSecurity

\* format_query_result that copies the whole failure dictionary of execute
format_query_result_copies_failure(r) ==
    IF r.success
    THEN IF r.data # None
         THEN [success |-> TRUE, message |-> "Query executed successfully",
               data |-> r.data,
               metadata |->
                 [row_count |->
                    IF r.data.kind = "rows" THEN Len(r.data.rows) ELSE 0,
                  query_type |-> "SELECT"]]
         ELSE [success |-> TRUE, message |-> "Query executed successfully",
               data |-> None,
               metadata |-> [rows_affected |-> r.rows_affected,
                             query_type |-> "WRITE"]]
    ELSE [success |-> FALSE, error |-> r.error,
          message |-> "Query execution failed",
          data |-> r.data, rows_affected |-> r.rows_affected]

\* format_query_result
format_query_result(r) ==
    IF r.success
    THEN IF r.data # None
         THEN [success |-> TRUE, message |-> "Query executed successfully",
               data |-> r.data,
               metadata |->
                 [row_count |->
                    IF r.data.kind = "rows" THEN Len(r.data.rows) ELSE 0,
                  query_type |-> "SELECT"]]
         ELSE [success |-> TRUE, message |-> "Query executed successfully",
               data |-> None,
               metadata |-> [rows_affected |-> r.rows_affected,
                             query_type |-> "WRITE"]]
    ELSE [success |-> FALSE, error |-> r.error,
          message |-> "Query execution failed"]

\* what mysql_query returns when execute has returned r to it; None when
\* execute was not called by mysql_query
MysqlQueryReturn(r) ==
    IF request = None THEN None ELSE format_query_result(r)

\* the dictionary mysql_query returns when no connection manager is set
NotInitialized ==
    [success |-> FALSE, error |-> "Connection not initialized",
     message |-> "Query execution failed"]

\* QueryValidator(allow_insert=os.getenv(...).lower() == "true", ...)
QueryValidatorFromEnviron(env) ==
    [allow_insert |->
        Lower(getenv(env, "MYSQL_ALLOW_INSERT", "false")) = "true",
     allow_update |->
        Lower(getenv(env, "MYSQL_ALLOW_UPDATE", "false")) = "true",
     allow_delete |->
        Lower(getenv(env, "MYSQL_ALLOW_DELETE", "false")) = "true"]

\* the except branch with a row count of zero in place of None
FailureEnvelope_zero_rows(text) ==
    [success |-> FALSE, error |-> text, data |-> None,
     rows_affected |-> Count("0")]

\* the dictionary of the except branch of execute
FailureEnvelope(text) ==
    [success |-> FALSE, error |-> text, data |-> None, rows_affected |-> None]

\* the result shaping with the two branches exchanged
SuccessEnvelope_swapped(t, value) ==
    IF t # SELECT
    THEN [success |-> TRUE, data |-> value, rows_affected |-> None]
    ELSE [success |-> TRUE, data |-> None, rows_affected |-> value]

\* the dictionary execute builds from its query_type and the value of the
\* connection manager
SuccessEnvelope(t, value) ==
    IF t = SELECT
    THEN [success |-> TRUE, data |-> value, rows_affected |-> None]
    ELSE [success |-> TRUE, data |-> None, rows_affected |-> value]

\* logger.error(f"Query execution failed: {e}", extra={"query": query})
LogRecord(text, q) == [message |-> text, query |-> q]

\* if isinstance(params, list): params = tuple(params)
ConvertParams(p) ==
    IF p.kind = "list" THEN Tuple(p.items) ELSE p

\* _add_database_prefix writing the database name in front of the text
add_database_prefix_qualifies(q, d) == <<d.s, ".">> \o q

\* QueryExecutor._add_database_prefix
add_database_prefix(q, d) == q

\* execute with the validation moved behind the call of the connection
\* manager: a rejected query has been handed over already
Execute_validates_late(q, p, d) ==
    /\ pc = "idle"
    /\ query' = q
    /\ exec_call' = [kind |-> "call", query |-> q, params |-> ConvertParams(p)]
    /\ LET e == validate_query(validator, q, TRUE)
       IN  IF e # None
           THEN /\ verr' = e
                /\ log' = Append(log, LogRecord(e.message, q))
                /\ result' = FailureEnvelope(e.message)
                /\ pc' = "returned"
           ELSE /\ verr' = None
                /\ log' = log
                /\ result' = None
                /\ pc' = "awaiting"
    /\ UNCHANGED <<validator, outcome, query_type>>
    /\ UNCHANGED <<toolVars, validation, limiterVars>>
    /\ UNCHANGED <<serverVars, securityVars>>

\* execute up to its await, with the validator v: validation, conversion
\* of the parameters, database prefix, call of connection_manager.execute;
\* a ValueError of the validation is caught by the except branch
ExecuteUpToAwait(v, q, p, d) ==
    LET e == validate_query(v, q, TRUE)
    IN  IF e # None
        THEN /\ verr' = e
             /\ query' = q
             /\ exec_call' = None
             /\ log' = Append(log, LogRecord(e.message, q))
             /\ result' = FailureEnvelope(e.message)
             /\ pc' = "returned"
        ELSE /\ verr' = None
             /\ query' = IF Truthy(d) THEN add_database_prefix(q, d) ELSE q
             /\ exec_call' = [kind |-> "call", query |-> query',
                              params |-> ConvertParams(p)]
             /\ log' = log
             /\ result' = None
             /\ pc' = "awaiting"

\* a call of execute on the executor, up to its await
Execute(q, p, d) ==
    /\ pc = "idle"
    /\ ExecuteUpToAwait(validator, q, p, d)
    /\ UNCHANGED <<validator, outcome, query_type>>
    /\ UNCHANGED <<toolVars, validation, limiterVars>>
    /\ UNCHANGED <<serverVars, securityVars>>

\* connection_manager.execute returns; execute shapes the result
ManagerReturns(value) ==
    /\ pc = "awaiting"
    /\ outcome' = [kind |-> "return", value |-> value]
    /\ query_type' = get_query_type(query)
    /\ result' = SuccessEnvelope(query_type', value)
    /\ pc' = "returned"
    /\ response' = MysqlQueryReturn(result')
    /\ UNCHANGED <<validator, query, verr, exec_call, log>>
    /\ UNCHANGED <<connection_manager, environ, request, validation,
                   limiterVars>>
    /\ UNCHANGED <<serverVars, securityVars>>

\* execute without its except branch: the exception of the connection
\* manager reaches the caller
ManagerRaises_propagates(text) ==
    /\ pc = "awaiting"
    /\ outcome' = [kind |-> "raise", text |-> text]
    /\ pc' = "raised"
    /\ UNCHANGED <<validator, query, verr, exec_call, query_type, result, log>>
    /\ UNCHANGED <<toolVars, validation, limiterVars>>
    /\ UNCHANGED <<serverVars, securityVars>>

\* connection_manager.execute raises an Exception; the except branch
ManagerRaises(text) ==
    /\ pc = "awaiting"
    /\ outcome' = [kind |-> "raise", text |-> text]
    /\ log' = Append(log, LogRecord(text, query))
    /\ result' = FailureEnvelope(text)
    /\ pc' = "returned"
    /\ response' = MysqlQueryReturn(result')
    /\ UNCHANGED <<validator, query, verr, exec_call, query_type>>
    /\ UNCHANGED <<connection_manager, environ, request, validation,
                   limiterVars>>
    /\ UNCHANGED <<serverVars, securityVars>>

\* the task is cancelled inside the await: asyncio.CancelledError is not
\* an Exception, the except branch does not catch it
ManagerCancelled ==
    /\ pc = "awaiting"
    /\ outcome' = [kind |-> "cancel"]
    /\ pc' = "raised"
    /\ UNCHANGED <<validator, query, verr, exec_call, query_type, result, log>>
    /\ UNCHANGED <<toolVars, validation, limiterVars>>
    /\ UNCHANGED <<serverVars, securityVars>>

\* the caller has the result; the executor is ready for the next call
Finish ==
    /\ pc \in {"returned", "raised", "refused"}
    /\ pc' = "idle"
    /\ query' = <<>>
    /\ verr' = None
    /\ exec_call' = None
    /\ outcome' = None
    /\ query_type' = None
    /\ result' = None
    /\ log' = <<>>
    /\ request' = None
    /\ response' = None
    /\ UNCHANGED <<validator, connection_manager, environ, validation,
                   limiterVars>>
    /\ UNCHANGED <<serverVars, securityVars>>

\* mysql_query that validates the query before it looks for the connection
\* manager
MysqlQuery_validates_first(q, p, d) ==
    /\ pc = "idle"
    /\ request' = [query |-> q, params |-> p, database |-> d]
    /\ IF /\ connection_manager = None
          /\ validate_query(QueryValidatorFromEnviron(environ), q, TRUE) = None
       THEN /\ response' = NotInitialized
            /\ pc' = "refused"
            /\ UNCHANGED <<validator, query, verr, exec_call, result, log>>
       ELSE /\ validator' = QueryValidatorFromEnviron(environ)
            /\ ExecuteUpToAwait(validator', q, p, d)
            /\ response' = IF result' = None THEN None
                           ELSE format_query_result(result')
    /\ UNCHANGED <<outcome, query_type, connection_manager, environ,
                   validation, limiterVars>>
    /\ UNCHANGED <<serverVars, securityVars>>

\* mysql_query up to its await: without a connection manager it returns at
\* once; otherwise it builds a validator from the environment and an
\* executor, and calls execute
MysqlQuery(q, p, d) ==
    /\ pc = "idle"
    /\ request' = [query |-> q, params |-> p, database |-> d]
    /\ IF connection_manager = None
       THEN /\ response' = NotInitialized
            /\ pc' = "refused"
            /\ UNCHANGED <<validator, query, verr, exec_call, result, log>>
       ELSE /\ validator' = QueryValidatorFromEnviron(environ)
            /\ ExecuteUpToAwait(validator', q, p, d)
            /\ response' = IF result' = None THEN None
                           ELSE format_query_result(result')
    /\ UNCHANGED <<outcome, query_type, connection_manager, environ,
                   validation, limiterVars>>
    /\ UNCHANGED <<serverVars, securityVars>>

\* set_connection_manager(manager)
SetConnectionManager ==
    /\ connection_manager' = Manager
    /\ UNCHANGED <<execVars, environ, request, response, validation,
                   limiterVars>>
    /\ UNCHANGED <<serverVars, securityVars>>

\* the process changes one of its environment variables
SetEnv(name, value) ==
    /\ environ' = [environ EXCEPT ![name] = value]
    /\ UNCHANGED <<execVars, connection_manager, request, response,
                   validation, limiterVars>>
    /\ UNCHANGED <<serverVars, securityVars>>

\* a call of execute with any query, parameters and database
Call ==
    /\ pc = "idle"
    /\ \E q \in Queries, p \in ParamValues, d \in Databases : Execute(q, p, d)

Next ==
    \/ Call
    \/ \E value \in ReturnValues : ManagerReturns(value)
    \/ \E text \in DriverErrors : ManagerRaises(text)
    \/ ManagerCancelled
    \/ Finish

Spec == Init /\ [][Next]_vars

\* ------------------------------------------- the validator called alone
\* a call validator.validate_query(q, allow_write) and what it raised
ValidateQuery(q, allow_write) ==
    /\ validation = None
    /\ validation' = [query |-> q, allow_write |-> allow_write,
                      raised |-> validate_query(validator, q, allow_write)]
    /\ UNCHANGED <<execVars, toolVars, limiterVars>>
    /\ UNCHANGED <<serverVars, securityVars>>

\* the caller has the outcome; the validator is ready for the next call
ValidationDone ==
    /\ validation # None
    /\ validation' = None
    /\ UNCHANGED <<execVars, toolVars, limiterVars>>
    /\ UNCHANGED <<serverVars, securityVars>>

\* a call of validate_query with any query and any allow_write
ValidatorCall ==
    /\ validation = None
    /\ \E q \in Queries, allow_write \in BOOLEAN :
          ValidateQuery(q, allow_write)

NextValidator ==
    \/ ValidatorCall
    \/ ValidationDone

SpecValidator == Init /\ [][NextValidator]_vars

\* ------------------------------------------------------ the rate limiter
\* the request times of ts that lie within the trailing horizon seconds
RECURSIVE Recent(_, _)
Recent(ts, horizon) ==
    IF ts = <<>> THEN <<>>
    ELSE IF now - Head(ts) < horizon
         THEN <<Head(ts)>> \o Recent(Tail(ts), horizon)
         ELSE Recent(Tail(ts), horizon)

\* the client is in its cooldown
InCooldown(c) == cooldown_until[c] # None /\ now < cooldown_until[c].t

\* what check_rate_limit returned, as its caller sees it
CheckReturned(c, allowed, retry_after) ==
    [op |-> "check_rate_limit", client |-> c, at |-> now,
     allowed |-> allowed, retry_after |-> retry_after]

\* check_rate_limit that never sets a cooldown and counts nothing
check_rate_limit_stub(c) ==
    /\ last_call' = CheckReturned(c, TRUE, None)
    /\ admitted' = [admitted EXCEPT ![c] = Append(@, now)]
    /\ UNCHANGED <<now, minute_requests, hour_requests, cooldown_until,
                   concurrent_queries, held>>
    /\ UNCHANGED <<execVars, toolVars, validation>>
    /\ UNCHANGED <<serverVars, securityVars>>

\* check_rate_limit with one request list for all the clients
check_rate_limit_shared(c) ==
    LET minute == Recent(minute_requests[c], MinuteSeconds)
        hour == Recent(hour_requests[c], HourSeconds)
    IN  /\ IF InCooldown(c)
           THEN /\ last_call' = CheckReturned(c, FALSE,
                                    Seconds(cooldown_until[c].t - now))
                /\ UNCHANGED <<minute_requests, hour_requests,
                               cooldown_until, admitted>>
           ELSE IF \/ Len(minute) >= max_requests_per_minute
                   \/ Len(hour) >= max_requests_per_hour
           THEN /\ last_call' = CheckReturned(c, FALSE,
                                              Seconds(cooldown_seconds))
                /\ minute_requests' = [minute_requests EXCEPT ![c] = minute]
                /\ hour_requests' = [hour_requests EXCEPT ![c] = hour]
                /\ cooldown_until' = [cooldown_until EXCEPT
                                        ![c] = At(now + cooldown_seconds)]
                /\ UNCHANGED admitted
           ELSE /\ last_call' = CheckReturned(c, TRUE, None)
                /\ minute_requests' =
                      [d \in Clients |-> Append(minute, now)]
                /\ hour_requests' = [d \in Clients |-> Append(hour, now)]
                /\ cooldown_until' = [cooldown_until EXCEPT ![c] = None]
                /\ admitted' = [admitted EXCEPT ![c] = Append(@, now)]
        /\ UNCHANGED <<now, concurrent_queries, held>>
        /\ UNCHANGED <<execVars, toolVars, validation>>
        /\ UNCHANGED <<serverVars, securityVars>>

\* check_rate_limit(client_id): the cooldown, then the minute window, then
\* the hour window; a denial by a window starts the cooldown; an allowed
\* request is recorded in both windows
check_rate_limit(c) ==
    LET minute == Recent(minute_requests[c], MinuteSeconds)
        hour == Recent(hour_requests[c], HourSeconds)
    IN  /\ IF InCooldown(c)
           THEN /\ last_call' = CheckReturned(c, FALSE,
                                    Seconds(cooldown_until[c].t - now))
                /\ UNCHANGED <<minute_requests, hour_requests,
                               cooldown_until, admitted>>
           ELSE IF \/ Len(minute) >= max_requests_per_minute
                   \/ Len(hour) >= max_requests_per_hour
           THEN /\ last_call' = CheckReturned(c, FALSE,
                                              Seconds(cooldown_seconds))
                /\ minute_requests' = [minute_requests EXCEPT ![c] = minute]
                /\ hour_requests' = [hour_requests EXCEPT ![c] = hour]
                /\ cooldown_until' = [cooldown_until EXCEPT
                                        ![c] = At(now + cooldown_seconds)]
                /\ UNCHANGED admitted
           ELSE /\ last_call' = CheckReturned(c, TRUE, None)
                /\ minute_requests' = [minute_requests EXCEPT
                                         ![c] = Append(minute, now)]
                /\ hour_requests' = [hour_requests EXCEPT
                                       ![c] = Append(hour, now)]
                /\ cooldown_until' = [cooldown_until EXCEPT ![c] = None]
                /\ admitted' = [admitted EXCEPT ![c] = Append(@, now)]
        /\ UNCHANGED <<now, concurrent_queries, held>>
        /\ UNCHANGED <<execVars, toolVars, validation>>
        /\ UNCHANGED <<serverVars, securityVars>>

\* acquire that hands out a slot whatever the number in use
acquire_unbounded(c) ==
    /\ concurrent_queries' = [concurrent_queries EXCEPT ![c] = @ + 1]
    /\ held' = [held EXCEPT ![c] = @ + 1]
    /\ last_call' = [op |-> "acquire", client |-> c, at |-> now,
                     acquired |-> TRUE]
    /\ UNCHANGED <<now, minute_requests, hour_requests, cooldown_until,
                   admitted>>
    /\ UNCHANGED <<execVars, toolVars, validation>>
    /\ UNCHANGED <<serverVars, securityVars>>

\* acquire(client_id): a slot when fewer than max_concurrent_queries are
\* in use by the client, otherwise False at once
acquire(c) ==
    /\ IF concurrent_queries[c] >= max_concurrent_queries
       THEN /\ last_call' = [op |-> "acquire", client |-> c, at |-> now,
                             acquired |-> FALSE]
            /\ UNCHANGED <<concurrent_queries, held>>
       ELSE /\ concurrent_queries' = [concurrent_queries EXCEPT ![c] = @ + 1]
            /\ held' = [held EXCEPT ![c] = @ + 1]
            /\ last_call' = [op |-> "acquire", client |-> c, at |-> now,
                             acquired |-> TRUE]
    /\ UNCHANGED <<now, minute_requests, hour_requests, cooldown_until,
                   admitted>>
    /\ UNCHANGED <<execVars, toolVars, validation>>
    /\ UNCHANGED <<serverVars, securityVars>>

\* release(client_id), called by a caller that holds a slot
release(c) ==
    /\ held[c] > 0
    /\ concurrent_queries' = [concurrent_queries EXCEPT ![c] = @ - 1]
    /\ held' = [held EXCEPT ![c] = @ - 1]
    /\ last_call' = [op |-> "release", client |-> c, at |-> now]
    /\ UNCHANGED <<now, minute_requests, hour_requests, cooldown_until,
                   admitted>>
    /\ UNCHANGED <<execVars, toolVars, validation>>
    /\ UNCHANGED <<serverVars, securityVars>>

\* time passes
Tick ==
    /\ now + TickSeconds <= MaxTicks * TickSeconds
    /\ now' = now + TickSeconds
    /\ UNCHANGED <<minute_requests, hour_requests, concurrent_queries,
                   cooldown_until, last_call, admitted, held>>
    /\ UNCHANGED <<execVars, toolVars, validation>>
    /\ UNCHANGED <<serverVars, securityVars>>

NextLimiter ==
    \/ \E c \in Clients : check_rate_limit(c)
    \/ \E c \in Clients : acquire(c)
    \/ \E c \in Clients : release(c)
    \/ Tick

\* a RateLimiter after construction; no executor, no tool call
InitRateLimiter ==
    /\ validator = None
    /\ pc = "idle"
    /\ query = <<>>
    /\ verr = None
    /\ exec_call = None
    /\ outcome = None
    /\ query_type = None
    /\ result = None
    /\ log = <<>>
    /\ connection_manager = None
    /\ environ = [n \in EnvNames |-> None]
    /\ request = None
    /\ response = None
    /\ validation = None
    /\ InitLimiter
    /\ InitServer
    /\ InitSecurity

SpecLimiter == InitRateLimiter /\ [][NextLimiter]_vars

\* ------------------------------------------------- the tool mysql_query
\* the module after import: no validator has been built, no connection
\* manager set
InitTool ==
    /\ validator = None
    /\ pc = "idle"
    /\ query = <<>>
    /\ verr = None
    /\ exec_call = None
    /\ outcome = None
    /\ query_type = None
    /\ result = None
    /\ log = <<>>
    /\ connection_manager = None
    /\ environ \in [EnvNames -> EnvValues]
    /\ request = None
    /\ response = None
    /\ validation = None
    /\ InitLimiter
    /\ InitServer
    /\ InitSecurity

\* a call of mysql_query with any query, parameters and database
ToolCall ==
    /\ pc = "idle"
    /\ \E q \in ToolQueries, p \in ParamValues, d \in Databases :
          MysqlQuery(q, p, d)

NextTool ==
    \/ ToolCall
    \/ \E value \in ReturnValues : ManagerReturns(value)
    \/ \E text \in DriverErrors : ManagerRaises(text)
    \/ ManagerCancelled
    \/ Finish
    \/ SetConnectionManager
    \/ \E name \in EnvNames, value \in EnvValues : SetEnv(name, value)

SpecTool == InitTool /\ [][NextTool]_vars

\* ------------------------------------------- the RateLimiter interface
\* security/interfaces/rate_limiter.py: the check and the recording of a
\* request are two coroutines, check_limit and record_request.  A caller
\* awaits the first and, when the request is allowed, the second; other
\* callers run in between.

\* check_limit(identifier): the cooldown, then the minute window, then the
\* hour window; a denial by a window starts the cooldown; nothing is
\* recorded
check_limit(p, c) ==
    LET minute == Recent(minute_requests[c], MinuteSeconds)
        hour == Recent(hour_requests[c], HourSeconds)
    IN  /\ caller[p].pc = "idle"
        /\ IF InCooldown(c)
           THEN /\ last_call' = [op |-> "check_limit", client |-> c,
                                 at |-> now, allowed |-> FALSE,
                                 retry_after |->
                                    Seconds(cooldown_until[c].t - now)]
                /\ UNCHANGED <<cooldown_until, admitted, caller>>
           ELSE IF \/ Len(minute) >= max_requests_per_minute
                   \/ Len(hour) >= max_requests_per_hour
           THEN /\ last_call' = [op |-> "check_limit", client |-> c,
                                 at |-> now, allowed |-> FALSE,
                                 retry_after |-> Seconds(cooldown_seconds)]
                /\ cooldown_until' = [cooldown_until EXCEPT
                                        ![c] = At(now + cooldown_seconds)]
                /\ UNCHANGED <<admitted, caller>>
           ELSE /\ last_call' = [op |-> "check_limit", client |-> c,
                                 at |-> now, allowed |-> TRUE,
                                 retry_after |-> None]
                /\ cooldown_until' = [cooldown_until EXCEPT ![c] = None]
                /\ admitted' = [admitted EXCEPT ![c] = Append(@, now)]
                /\ caller' = [caller EXCEPT
                                ![p] = [pc |-> "allowed", client |-> c]]
        /\ minute_requests' = [minute_requests EXCEPT ![c] = minute]
        /\ hour_requests' = [hour_requests EXCEPT ![c] = hour]
        /\ UNCHANGED <<now, concurrent_queries, held>>
        /\ UNCHANGED <<execVars, toolVars, validation, serverVars,
                       filter, filter_call>>

\* record_request(identifier), awaited by a caller whose check_limit said
\* that the request is allowed
record_request(p) ==
    LET c == caller[p].client
    IN  /\ caller[p].pc = "allowed"
        /\ minute_requests' = [minute_requests EXCEPT ![c] = Append(@, now)]
        /\ hour_requests' = [hour_requests EXCEPT ![c] = Append(@, now)]
        /\ last_call' = [op |-> "record_request", client |-> c, at |-> now]
        /\ caller' = [caller EXCEPT ![p] = [pc |-> "idle"]]
        /\ UNCHANGED <<now, concurrent_queries, cooldown_until, admitted,
                       held>>
        /\ UNCHANGED <<execVars, toolVars, validation, serverVars,
                       filter, filter_call>>

NextInterface ==
    \/ \E p \in Callers, c \in Clients : check_limit(p, c)
    \/ \E p \in Callers : record_request(p)
    \/ Tick

SpecInterface == InitRateLimiter /\ [][NextInterface]_vars

\* ------------------------------------------------------ the query filter
\* QueryFilter of tests/security/test_query_filtering.py, with the
\* evaluation the design gives it (the RuleFilter).  A pattern is a regular
\* expression of one of two shapes: .*<atom>.* (the text holds the atom) and
\* ^<keyword>\s+.* (the text starts with the keyword and whitespace).
Holds(regex, atom) == [regex |-> regex, kind |-> "holds", atom |-> atom]
StartsWith(regex, atom) == [regex |-> regex, kind |-> "starts", atom |-> atom]

BlacklistPatterns ==
    { Holds(".*information_schema.*", "information_schema"),
      Holds(".*LOAD_FILE.*", "LOAD_FILE") }

WhitelistPatterns == { StartsWith("^SELECT\\s+.*", "SELECT") }

FilterTables == {"users", "passwords"}

\* the sequences without repetition over a set of at most two patterns
ListsOf(S) ==
    {<<>>} \cup {<<a>> : a \in S} \cup
    {pair \in S \X S : pair[1] # pair[2]}

\* the filters QueryFilter.__init__ can build from these rules
Filters ==
    [whitelist_patterns : ListsOf(WhitelistPatterns),
     blacklist_patterns : ListsOf(BlacklistPatterns),
     whitelist_tables : SUBSET FilterTables,
     blacklist_tables : SUBSET FilterTables,
     whitelist_operations : {{}, {"SELECT"}},
     blacklist_operations : {{}, {"DELETE"}}]

\* the queries of the calls of is_allowed
FilterQueries ==
    { <<"SELECT", Space, "*", Space, "FROM", Space, "users">>,
      <<"SELECT", Space, "*", Space, "FROM", Space, "passwords">>,
      <<"SELECT", Space, "*", Space, "FROM", Space,
        "information_schema", ".", "tables">>,
      <<"SELECT", Space, "LOAD_FILE", Space, "FROM", Space, "db", ".",
        "users">>,
      <<"SELECT", Space, "*", Space, "FROM", Space, "users", Space, "u",
        Space, "JOIN", Space, "passwords">>,
      <<"WITH", Space, "cte", Space, "AS", Space, "(", "SELECT", Space, "*",
        Space, "FROM", Space, "users", ")", Space, "SELECT", Space, "*",
        Space, "FROM", Space, "cte">>,
      <<"DELETE", Space, "FROM", Space, "users">>,
      <<"SELECT", Space, "1">> }

\* re.search(pattern, query)
PatternMatches(pattern, q) ==
    IF pattern.kind = "holds"
    THEN \E i \in 1..Len(q) : q[i] = pattern.atom
    ELSE /\ Len(q) >= 2
         /\ q[1] = pattern.atom
         /\ IsSpace(q[2])

\* the names a WITH clause declares
DeclaredNames(q) ==
    {q[SkipSpaces(q, i + 1)] :
        i \in {k \in 1..Len(q) : /\ Upper(q[k]) = "WITH"
                                 /\ SkipSpaces(q, k + 1) <= Len(q)}}

\* the name that starts at atom j of q: of db.table the table
NameAt(q, j) ==
    IF j + 2 <= Len(q) /\ q[j + 1] = "." THEN q[j + 2] ELSE q[j]

\* the tables q refers to from its atom i on, in the order of the text:
\* the names after FROM and after JOIN, but for the names q declares itself
RECURSIVE TablesFrom(_, _)
TablesFrom(q, i) ==
    IF i > Len(q) THEN <<>>
    ELSE LET j == SkipSpaces(q, i + 1)
         IN  IF /\ Upper(q[i]) \in {"FROM", "JOIN"}
                /\ j <= Len(q)
                /\ NameAt(q, j) \notin DeclaredNames(q)
             THEN <<NameAt(q, j)>> \o TablesFrom(q, i + 1)
             ELSE TablesFrom(q, i + 1)

referenced_tables(q) == TablesFrom(q, 1)

\* the first element of the sequence that is in the set (the sequence has
\* one)
RECURSIVE FirstIn(_, _)
FirstIn(seq, S) ==
    IF Head(seq) \in S THEN Head(seq) ELSE FirstIn(Tail(seq), S)

Range(seq) == {seq[i] : i \in 1..Len(seq)}

\* the results of is_allowed
Allowed == [allowed |-> TRUE, reason |-> [text |-> "OK"]]
DeniedPattern(regex) ==
    [allowed |-> FALSE,
     reason |-> [text |-> "Query matches blacklisted pattern",
                 pattern |-> regex]]
DeniedTable(t) ==
    [allowed |-> FALSE,
     reason |-> [text |-> "Table is blacklisted", table |-> t]]
DeniedNotInWhitelist(t) ==
    [allowed |-> FALSE,
     reason |-> [text |-> "Table is not in whitelist", table |-> t]]
DeniedNoPattern ==
    [allowed |-> FALSE,
     reason |-> [text |-> "Query does not match any whitelisted pattern"]]
DeniedOperation(op) ==
    [allowed |-> FALSE,
     reason |-> [text |-> "Operation is not allowed", operation |-> op]]

\* is_allowed as the stub has it
is_allowed_stub(f, q) == Allowed

\* is_allowed with the table whitelist in front of the blacklists
is_allowed_whitelist_first(f, q) ==
    LET tables == referenced_tables(q)
        black == {i \in 1..Len(f.blacklist_patterns) :
                     PatternMatches(f.blacklist_patterns[i], q)}
        white == {i \in 1..Len(f.whitelist_patterns) :
                     PatternMatches(f.whitelist_patterns[i], q)}
        op == get_query_type(q)
    IN  IF /\ f.whitelist_tables # {}
           /\ Range(tables) \subseteq f.whitelist_tables
        THEN Allowed
        ELSE IF black # {}
        THEN DeniedPattern(
                f.blacklist_patterns[CHOOSE i \in black :
                                        \A k \in black : i <= k].regex)
        ELSE IF Range(tables) \cap f.blacklist_tables # {}
        THEN DeniedTable(FirstIn(tables, f.blacklist_tables))
        ELSE IF f.whitelist_tables # {}
        THEN DeniedNotInWhitelist(
                FirstIn(tables, Range(tables) \ f.whitelist_tables))
        ELSE IF f.whitelist_patterns # <<>> /\ white = {}
        THEN DeniedNoPattern
        ELSE IF \/ /\ f.whitelist_operations # {}
                   /\ op \notin f.whitelist_operations
                \/ op \in f.blacklist_operations
        THEN DeniedOperation(op)
        ELSE Allowed

\* is_allowed(query) of the filter f: the rules in their order, the first
\* decisive one gives the result
is_allowed(f, q) ==
    LET tables == referenced_tables(q)
        black == {i \in 1..Len(f.blacklist_patterns) :
                     PatternMatches(f.blacklist_patterns[i], q)}
        white == {i \in 1..Len(f.whitelist_patterns) :
                     PatternMatches(f.whitelist_patterns[i], q)}
        op == get_query_type(q)
    IN  IF black # {}
        THEN DeniedPattern(
                f.blacklist_patterns[CHOOSE i \in black :
                                        \A k \in black : i <= k].regex)
        ELSE IF Range(tables) \cap f.blacklist_tables # {}
        THEN DeniedTable(FirstIn(tables, f.blacklist_tables))
        ELSE IF /\ f.whitelist_tables # {}
                /\ ~(Range(tables) \subseteq f.whitelist_tables)
        THEN DeniedNotInWhitelist(
                FirstIn(tables, Range(tables) \ f.whitelist_tables))
        ELSE IF f.whitelist_patterns # <<>> /\ white = {}
        THEN DeniedNoPattern
        ELSE IF \/ /\ f.whitelist_operations # {}
                   /\ op \notin f.whitelist_operations
                \/ op \in f.blacklist_operations
        THEN DeniedOperation(op)
        ELSE Allowed

\* a call filter.is_allowed(q) and what it returned
IsAllowedCall(q) ==
    /\ filter_call = None
    /\ filter_call' = [query |-> q, returned |-> is_allowed(filter, q)]
    /\ UNCHANGED <<filter, caller>>
    /\ UNCHANGED <<execVars, toolVars, validation, limiterVars, serverVars>>

\* the caller has the result; the filter is ready for the next call
IsAllowedDone ==
    /\ filter_call # None
    /\ filter_call' = None
    /\ UNCHANGED <<filter, caller>>
    /\ UNCHANGED <<execVars, toolVars, validation, limiterVars, serverVars>>

\* a call of is_allowed with any query
FilterCall ==
    /\ filter_call = None
    /\ \E q \in FilterQueries : IsAllowedCall(q)

NextFilter ==
    \/ FilterCall
    \/ IsAllowedDone

\* a QueryFilter after construction, with any of the rule sets
InitQueryFilter ==
    /\ validator = None
    /\ pc = "idle"
    /\ query = <<>>
    /\ verr = None
    /\ exec_call = None
    /\ outcome = None
    /\ query_type = None
    /\ result = None
    /\ log = <<>>
    /\ connection_manager = None
    /\ environ = [n \in EnvNames |-> None]
    /\ request = None
    /\ response = None
    /\ validation = None
    /\ InitLimiter
    /\ InitServer
    /\ caller = [p \in Callers |-> [pc |-> "idle"]]
    /\ filter \in Filters
    /\ filter_call = None

SpecFilter == InitQueryFilter /\ [][NextFilter]_vars

\* ------------------------------------------------------------ the server
\* server.py, create_server: the registered tool mysql_query, called by
\* concurrent tasks.  A task is suspended in one of two awaits: in
\* create_connection_manager (pc "setup", inside setup_connection inside
\* ensure_connection) or in connection_manager.execute (pc "query", inside
\* tools.query.mysql_query).  Between two awaits a task runs alone.

\* what tools.query.mysql_query can return after connection_manager.execute
PipelineResults ==
    {format_query_result(SuccessEnvelope(SELECT, v)) : v \in RowSets} \cup
    {format_query_result(FailureEnvelope(text)) : text \in DriverErrors}

\* the task enters tools.query.mysql_query with the connection manager m
\* installed: without one it returns at once, otherwise it runs up to the
\* await of connection_manager.execute
EnterPipeline(m, via) ==
    IF m = None
    THEN [pc |-> "done", via |-> via, raised |-> FALSE,
          response |-> NotInitialized]
    ELSE [pc |-> "query", via |-> via]

\* the tool with an ensure_connection that sets the flag before it awaits
\* setup_connection
ServerMysqlQuery_flag_first(t) ==
    /\ task[t].pc = "idle"
    /\ IF ~connection_initialized
       THEN /\ setup_calls < MaxSetups
            /\ setup_calls' = setup_calls + 1
            /\ connection_initialized' = TRUE
            /\ task' = [task EXCEPT ![t] = [pc |-> "setup"]]
       ELSE /\ task' = [task EXCEPT
                          ![t] = EnterPipeline(connection_manager, "flag")]
            /\ UNCHANGED <<setup_calls, connection_initialized>>
    /\ UNCHANGED <<setup_failures, manager_sets>>
    /\ UNCHANGED <<execVars, toolVars, validation, limiterVars, securityVars>>

\* a task calls the registered tool: ensure_connection tests the flag and,
\* when it is not set, awaits setup_connection, which awaits
\* create_connection_manager; when the flag is set the task goes on into
\* tools.query.mysql_query
ServerMysqlQuery(t) ==
    /\ task[t].pc = "idle"
    /\ IF ~connection_initialized
       THEN /\ setup_calls < MaxSetups
            /\ setup_calls' = setup_calls + 1
            /\ task' = [task EXCEPT ![t] = [pc |-> "setup"]]
       ELSE /\ task' = [task EXCEPT
                          ![t] = EnterPipeline(connection_manager, "flag")]
            /\ UNCHANGED setup_calls
    /\ UNCHANGED <<connection_initialized, setup_failures, manager_sets>>
    /\ UNCHANGED <<execVars, toolVars, validation, limiterVars, securityVars>>

\* create_connection_manager returns: setup_connection installs the manager
\* and returns, ensure_connection sets the flag, and the task goes on into
\* tools.query.mysql_query
SetupReturns(t) ==
    /\ task[t].pc = "setup"
    /\ connection_manager' = Manager
    /\ manager_sets' = manager_sets + 1
    /\ connection_initialized' = TRUE
    /\ task' = [task EXCEPT ![t] = EnterPipeline(connection_manager', "setup")]
    /\ UNCHANGED <<setup_calls, setup_failures>>
    /\ UNCHANGED <<execVars, environ, request, response, validation,
                   limiterVars, securityVars>>

\* ensure_connection with the flag set in a finally block
SetupRaises_sets_flag(t) ==
    /\ task[t].pc = "setup"
    /\ setup_failures' = setup_failures + 1
    /\ connection_initialized' = TRUE
    /\ task' = [task EXCEPT ![t] = [pc |-> "done", via |-> "setup",
                                    raised |-> TRUE, response |-> None]]
    /\ UNCHANGED <<setup_calls, manager_sets>>
    /\ UNCHANGED <<execVars, toolVars, validation, limiterVars, securityVars>>

\* create_connection_manager raises: setup_connection logs and raises
\* again, ensure_connection and the tool let the exception pass
SetupRaises(t) ==
    /\ task[t].pc = "setup"
    /\ setup_failures' = setup_failures + 1
    /\ task' = [task EXCEPT ![t] = [pc |-> "done", via |-> "setup",
                                    raised |-> TRUE, response |-> None]]
    /\ UNCHANGED <<connection_initialized, setup_calls, manager_sets>>
    /\ UNCHANGED <<execVars, toolVars, validation, limiterVars, securityVars>>

\* tools.query.mysql_query returns its dictionary to the tool
PipelineReturns(t, r) ==
    /\ task[t].pc = "query"
    /\ task' = [task EXCEPT ![t] = [pc |-> "done", via |-> task[t].via,
                                    raised |-> FALSE, response |-> r]]
    /\ UNCHANGED <<connection_initialized, setup_calls, setup_failures,
                   manager_sets>>
    /\ UNCHANGED <<execVars, toolVars, validation, limiterVars, securityVars>>

\* the caller of the tool has the result; the task is free for a new call
TaskDone(t) ==
    /\ task[t].pc = "done"
    /\ task' = [task EXCEPT ![t] = [pc |-> "idle"]]
    /\ UNCHANGED <<connection_initialized, setup_calls, setup_failures,
                   manager_sets>>
    /\ UNCHANGED <<execVars, toolVars, validation, limiterVars, securityVars>>

NextServer ==
    \/ \E t \in Tasks : ServerMysqlQuery(t)
    \/ \E t \in Tasks : SetupReturns(t)
    \/ \E t \in Tasks : SetupRaises(t)
    \/ \E t \in Tasks, r \in PipelineResults : PipelineReturns(t, r)
    \/ \E t \in Tasks : TaskDone(t)

\* the process after create_server: no connection manager, no call
InitCreateServer ==
    /\ validator = None
    /\ pc = "idle"
    /\ query = <<>>
    /\ verr = None
    /\ exec_call = None
    /\ outcome = None
    /\ query_type = None
    /\ result = None
    /\ log = <<>>
    /\ connection_manager = None
    /\ environ = [n \in EnvNames |-> None]
    /\ request = None
    /\ response = None
    /\ validation = None
    /\ InitLimiter
    /\ InitServer
    /\ InitSecurity

SpecServer == InitCreateServer /\ [][NextServer]_vars

\* ============================================================ properties
\* vocabulary of the properties, read off the query text itself

\* the text has a ';' that is followed, after optional whitespace, by a
\* character that is not whitespace
SemicolonThenText(q) ==
    \E i \in 1..Len(q) : q[i] = Semicolon /\ SkipSpaces(q, i + 1) <= Len(q)

\* atoms made of identifier characters: right after a keyword they make a
\* longer word of it
WordAtoms == {"t", "c", "TABLE"} \cup KeywordAtoms

\* after its leading whitespace the text starts with one of the keywords,
\* in any letter case
StartsWithKeyword(q, keywords) ==
    LET i == SkipSpaces(q, 1)
    IN  /\ i <= Len(q)
        /\ Upper(q[i]) \in keywords
        /\ (i + 1 <= Len(q) => q[i + 1] \notin WordAtoms)

WriteTypes == {INSERT, UPDATE, DELETE}

\* the permission flag of a write category
Flag(v, t) ==
    CASE t = INSERT -> v.allow_insert
      [] t = UPDATE -> v.allow_update
      [] t = DELETE -> v.allow_delete

CallEnded == pc \in {"returned", "raised"}

Rejected == verr # None

\* execute has validated the query and not gone further
JustValidated == pc = "awaiting" \/ (pc = "returned" /\ Rejected)

C2_DDLAlwaysDenied ==
    (pc # "idle" /\ ~SemicolonThenText(query)
        /\ StartsWithKeyword(query, DDLKeywords)) =>
        /\ exec_call = None
        /\ pc = "returned"
        /\ result.success = FALSE

\* ---------------------------------------------------------------------
\* C3: a single-statement INSERT, UPDATE or DELETE query is denied by
\* execute exactly when the flag of its own category is false, and a
\* validator that differs in one flag only gives the same verdict on every
\* query of another category.
\* the validator v with the flag of the write category t changed
FlagChanged(v, t) ==
    CASE t = INSERT -> [v EXCEPT !.allow_insert = ~v.allow_insert]
      [] t = UPDATE -> [v EXCEPT !.allow_update = ~v.allow_update]
      [] t = DELETE -> [v EXCEPT !.allow_delete = ~v.allow_delete]

C3_WriteDeniedIffFlagOff ==
    (JustValidated /\ ~SemicolonThenText(query)) =>
        LET category == get_query_type(query)
        IN  /\ category \in WriteTypes =>
                  (Rejected <=> ~Flag(validator, category))
            /\ \A t \in WriteTypes \ {category} :
                  validate_query(FlagChanged(validator, t), query, TRUE) = verr

\* a DELETE was denied although the other two flags are on
C3_Witness ==
    /\ pc = "returned"
    /\ ~SemicolonThenText(query)
    /\ get_query_type(query) = DELETE
    /\ validator.allow_insert /\ validator.allow_update
    /\ ~validator.allow_delete
    /\ Rejected
    /\ result.error = MsgDelete

FixedMessages ==
    {MsgMultiple, MsgDDL, MsgInsert, MsgUpdate, MsgDelete,
     MsgNeedWrite(INSERT), MsgNeedWrite(UPDATE), MsgNeedWrite(DELETE),
     "Query execution failed"}

C5_ErrorIsFixedMessage ==
    (pc = "returned" /\ result.success = FALSE) =>
        /\ result.error \in FixedMessages
        /\ outcome.kind = "raise" => result.error # outcome.text

\* ---------------------------------------------------------------------
\* C6: in every dictionary returned by execute, success=true implies that
\* there is no error, and success=false implies that data and
\* rows_affected are None.
C6_EnvelopeShape ==
    pc = "returned" =>
        /\ result.success =>
              ("error" \notin DOMAIN result \/ result.error = None)
        /\ ~result.success =>
              (result.data = None /\ result.rows_affected = None)

\* a success was returned, without an error
C6_Witness ==
    /\ pc = "returned"
    /\ result.success
    /\ "error" \notin DOMAIN result

\* ---------------------------------------------------------------------
\* C7: when an admitted SELECT or OTHER query is executed successfully, data
\* is the value the connection manager returned and rows_affected is None.
C7_ReadResultInData ==
    (pc = "returned" /\ outcome.kind = "return"
        /\ get_query_type(query) \in {SELECT, OTHER_TYPE}) =>
        /\ result.data = outcome.value
        /\ result.rows_affected = None

\* ---------------------------------------------------------------------
\* C8: when an admitted INSERT, UPDATE or DELETE query is executed
\* successfully, rows_affected is the count the connection manager returned
\* and data is None.
C8_WriteResultInRowsAffected ==
    (pc = "returned" /\ outcome.kind = "return"
        /\ get_query_type(query) \in WriteTypes) =>
        /\ result.success
        /\ result.rows_affected = outcome.value
        /\ result.data = None

\* an UPDATE returned the count of the connection manager
C8_Witness ==
    /\ pc = "returned"
    /\ get_query_type(query) = UPDATE
    /\ outcome = [kind |-> "return", value |-> Count("n")]
    /\ result.rows_affected = Count("n")
    /\ result.data = None

\* ---------------------------------------------------------------------
\* C9: a call of execute that the validation rejects never calls the
\* connection manager; connection_manager.execute is called only with a
\* query for which validate_query has returned without error in that call.
C9_NoExecutionAfterRejection ==
    /\ Rejected => (exec_call = None /\ outcome = None)
    /\ exec_call # None =>
          /\ ~Rejected
          /\ validate_query(validator, exec_call.query, TRUE) = None

\* a disallowed INSERT was rejected and the connection manager not called
C9_Witness ==
    /\ pc = "returned"
    /\ Rejected
    /\ verr.message = MsgInsert
    /\ exec_call = None
    /\ outcome = None

\* ---------------------------------------------------------------------
\* C10: get_query_type agrees with the reference classifier: SELECT exactly
\* when the text starts with SELECT or with a WITH <name> AS (...) clause
\* followed by SELECT, INSERT, UPDATE, DELETE exactly when it starts with
\* that keyword, DDL exactly when it starts with CREATE, DROP, ALTER,
\* TRUNCATE or RENAME, OTHER in every remaining case.

\* the texts of a clause <name> AS (...)
CTEClauses ==
    { <<"c AS (x)">>,
      <<"c", Newline, "AS (x)">>,
      <<"c AS (", Space, "SELECT", Space, "1 )">> }

\* the text starts with WITH <name> AS (...) and SELECT follows the clause
StartsWithCTESelect(q) ==
    LET i == SkipSpaces(q, 1)
    IN  /\ i + 1 <= Len(q)
        /\ Upper(q[i]) = "WITH"
        /\ IsSpace(q[i + 1])
        /\ \E c \in CTEClauses :
              LET b == SkipSpaces(q, i + 1)
                  e == b + Len(c)
              IN  /\ e <= Len(q)
                  /\ SubSeq(q, b, e - 1) = c
                  /\ IsSpace(q[e])
                  /\ StartsWithKeyword(SubSeq(q, e, Len(q)), {"SELECT"})

ReferenceType(q) ==
    IF StartsWithKeyword(q, {"SELECT"}) \/ StartsWithCTESelect(q) THEN SELECT
    ELSE IF StartsWithKeyword(q, {"INSERT"}) THEN INSERT
    ELSE IF StartsWithKeyword(q, {"UPDATE"}) THEN UPDATE
    ELSE IF StartsWithKeyword(q, {"DELETE"}) THEN DELETE
    ELSE IF StartsWithKeyword(q, DDLKeywords) THEN DDL
    ELSE OTHER_TYPE

C10_ClassifierAgreesWithReference ==
    (pc = "returned" /\ outcome.kind = "return") =>
        query_type = ReferenceType(query)

\* ---------------------------------------------------------------------
\* C11: a query whose only ';' is its last character that is not whitespace
\* is not rejected as multiple statements, and execute admits or rejects it
\* exactly as it does the same text without that ';'.

\* the text has one ';' and nothing but whitespace after it
OnlyTrailingSemicolon(q) ==
    \E i \in 1..Len(q) :
        /\ q[i] = Semicolon
        /\ \A k \in 1..Len(q) : q[k] = Semicolon => k = i
        /\ SkipSpaces(q, i + 1) > Len(q)

IsNotSemicolon(a) == a # Semicolon

\* the text with its ';' taken out
WithoutSemicolon(q) == SelectSeq(q, IsNotSemicolon)

C11_TrailingSemicolonIgnored ==
    (JustValidated /\ OnlyTrailingSemicolon(query)) =>
        /\ verr # ValueError(MsgMultiple)
        /\ Rejected <=>
              validate_query(validator, WithoutSemicolon(query), TRUE) # None

\* ---------------------------------------------------------------------
\* C12: validate_query passes every single-statement query of category
\* SELECT or OTHER (as get_query_type gives it, and also as the text itself
\* shows it), whatever the three permission flags and the allow_write
\* argument are.
C12_ReadsAlwaysPass ==
    (/\ validation # None
     /\ ~SemicolonThenText(validation.query)
     /\ \/ get_query_type(validation.query) \in {SELECT, OTHER_TYPE}
        \/ ReferenceType(validation.query) \in {SELECT, OTHER_TYPE}) =>
        validation.raised = None

\* a SHOW passed with all flags off and allow_write=False
C12_Witness ==
    /\ validation # None
    /\ validation.query = <<"SHOW", Space, "t">>
    /\ get_query_type(validation.query) = OTHER_TYPE
    /\ ~validation.allow_write
    /\ ~validator.allow_insert /\ ~validator.allow_update
    /\ ~validator.allow_delete
    /\ validation.raised = None

\* ---------------------------------------------------------------------
\* C13: when the validation rejects the query, the rejection leaves execute
\* as a raised ValueError with the message of the validation.
C13_RejectionIsRaised ==
    (CallEnded /\ Rejected) => (pc = "raised" /\ result = None)

\* ---------------------------------------------------------------------
\* C14: every call of mysql_query is validated against the same three
\* permission flags: once a call has been validated against a set of flags,
\* no later call is validated against another one, whatever happens to the
\* environment of the process in between.
C14_PermissionSetFixed ==
    [][validator # None => validator' = validator]_vars

\* ---------------------------------------------------------------------
\* C15: whenever mysql_query has returned success=false, the log holds a
\* record of this call with the query text and the reason of the failure.
C15_FailuresAreLogged ==
    (response # None /\ ~response.success) =>
        \E i \in 1..Len(log) :
            /\ log[i].query = request.query
            /\ log[i].message = response.error

CountWithin(ts, at, horizon) ==
    Cardinality({i \in 1..Len(ts) : at - ts[i] < horizon})

\* the allowed checks of the client of the last call that came before it
PriorAdmitted ==
    LET a == admitted[last_call.client]
    IN  IF last_call.allowed THEN SubSeq(a, 1, Len(a) - 1) ELSE a

LimiterState(c) ==
    <<minute_requests[c], hour_requests[c], concurrent_queries[c],
      cooldown_until[c]>>

C28_RefusedWithoutManager ==
    (request # None /\ connection_manager = None) =>
        /\ pc = "refused"
        /\ response # None
        /\ response.success = FALSE
        /\ response.error = "Connection not initialized"
        /\ verr = None
        /\ result = None
        /\ exec_call = None

\* a text with two statements was refused for the missing connection
\* manager, not for its second statement
C28_Witness ==
    /\ pc = "refused"
    /\ connection_manager = None
    /\ request # None
    /\ HasMultipleStatements(request.query)
    /\ response.success = FALSE
    /\ response.error = "Connection not initialized"
    /\ verr = None
    /\ exec_call = None

\* ---------------------------------------------------------------------
\* C29: mysql_query ends every call with a dictionary, also when the
\* validation or the connection manager raised an exception: success is a
\* boolean; with success=false the dictionary has error and message and no
\* data, with success=true it has data and metadata and no error.
C29_ReadableResult ==
    /\ (request # None /\ pc \in {"returned", "refused"}) => response # None
    /\ (request # None /\ CallEnded
          /\ (Rejected \/ outcome.kind = "raise")) =>
          /\ pc = "returned"
          /\ response # None
          /\ response.success = FALSE
    /\ response # None =>
          /\ response.success \in BOOLEAN
          /\ IF response.success
             THEN DOMAIN response = {"success", "message", "data", "metadata"}
             ELSE DOMAIN response = {"success", "error", "message"}

\* the connection manager raised and mysql_query returned a failure
\* dictionary without data
C29_Witness ==
    /\ request # None
    /\ pc = "returned"
    /\ outcome.kind = "raise"
    /\ response # None
    /\ response.success = FALSE
    /\ response.error = outcome.text
    /\ DOMAIN response = {"success", "error", "message"}

\* ---------------------------------------------------------------------
\* C30: validate_query with allow_write=False rejects every single-statement
\* query of category INSERT, UPDATE or DELETE with '<CATEGORY> operations
\* require write permission', also when the flag of the category is on; with
\* allow_write=True the query is rejected exactly when the flag of its
\* category is off, with '<CATEGORY> operations are not allowed', whatever
\* the other two flags are.

\* the two messages of a write category
RequiresWritePermission(t) ==
    CASE t = INSERT -> "INSERT operations require write permission"
      [] t = UPDATE -> "UPDATE operations require write permission"
      [] t = DELETE -> "DELETE operations require write permission"

NotAllowed(t) ==
    CASE t = INSERT -> "INSERT operations are not allowed"
      [] t = UPDATE -> "UPDATE operations are not allowed"
      [] t = DELETE -> "DELETE operations are not allowed"

C30_WriteNeedsAllowWrite ==
    (/\ validation # None
     /\ ~SemicolonThenText(validation.query)
     /\ get_query_type(validation.query) \in WriteTypes) =>
        LET t == get_query_type(validation.query)
        IN  IF ~validation.allow_write
            THEN validation.raised = ValueError(RequiresWritePermission(t))
            ELSE /\ validation.raised =
                       IF Flag(validator, t) THEN None
                       ELSE ValueError(NotAllowed(t))
                 /\ \A u \in WriteTypes \ {t} :
                       validate_query(FlagChanged(validator, u),
                                      validation.query, TRUE)
                          = validation.raised

\* an UPDATE was rejected for allow_write=False although all the flags
\* are on
C30_Witness ==
    /\ validation # None
    /\ ~SemicolonThenText(validation.query)
    /\ get_query_type(validation.query) = UPDATE
    /\ ~validation.allow_write
    /\ validator.allow_insert /\ validator.allow_update
    /\ validator.allow_delete
    /\ validation.raised =
          ValueError("UPDATE operations require write permission")

\* ---------------------------------------------------------------------
\* C25: as long as no setup_connection has failed, setup_connection is
\* started at most once and the global connection manager is set at most
\* once, however the calls of the registered tool interleave.
C25_SetupStartedOnce ==
    setup_failures = 0 => (setup_calls <= 1 /\ manager_sets <= 1)

\* ---------------------------------------------------------------------
\* C26: a call of the registered tool that has got past ensure_connection
\* finds the global connection manager set: while it is in the query
\* pipeline the manager is set, and no call ends with the 'Connection not
\* initialized' dictionary.
C26_ManagerSetInPipeline ==
    \A t \in Tasks :
        /\ task[t].pc = "query" => connection_manager # None
        /\ (task[t].pc = "done" /\ ~task[t].raised) =>
              /\ task[t].response # None
              /\ task[t].response #
                    [success |-> FALSE,
                     error |-> "Connection not initialized",
                     message |-> "Query execution failed"]

\* one call is in the pipeline after its own setup, another one after it
\* found the flag set, and the connection manager is there
C26_Witness ==
    /\ connection_manager # None
    /\ \E t, u \in Tasks :
          /\ task[t].pc = "query" /\ task[t].via = "setup"
          /\ task[u].pc = "query" /\ task[u].via = "flag"

\* ---------------------------------------------------------------------
\* C27: a failure of setup_connection leaves the initialised flag and the
\* global connection manager as they were, and a tool call that finds the
\* flag not set starts setup_connection; the flag becomes true only in the
\* step in which a setup_connection ends without error, having set the
\* connection manager, and once true it stays true.
C27_FlagFollowsSetup ==
    [][/\ setup_failures' # setup_failures =>
             /\ connection_initialized' = connection_initialized
             /\ connection_manager' = connection_manager
       /\ \A t \in Tasks :
             (/\ ~connection_initialized
              /\ task[t].pc = "idle"
              /\ task'[t].pc # "idle") =>
                 /\ task'[t].pc = "setup"
                 /\ setup_calls' = setup_calls + 1
       /\ (~connection_initialized /\ connection_initialized') =>
             /\ manager_sets' = manager_sets + 1
             /\ setup_failures' = setup_failures
             /\ connection_manager' # None
       /\ connection_initialized => connection_initialized'
      ]_vars

\* a setup has failed, the flag is not set, no connection manager is set,
\* and the next call is in setup_connection again
C27_Witness ==
    /\ setup_failures = 1
    /\ setup_calls = 2
    /\ ~connection_initialized
    /\ connection_manager = None
    /\ task["task1"].pc = "idle"
    /\ task["task2"].pc = "setup"

====
